---- MODULE Spec2Model ----
(***************************************************************************)
(* Model of the LLM post-processing utilities of ds-ai-sourcer-v5:         *)
(*   utils/aiUtils (cleanJsonResponse, parseJsonSafely),                   *)
(*   utils/jobExtraction (validateJsonStructure, extractJobFromUrl,        *)
(*       createFallbackJobData),                                           *)
(*   utils/openai (generateCampaignSequence),                              *)
(*   utils/campaignAssistantAI (processUserInput,                          *)
(*       generateCampaignFromDraft and their fallbacks).                   *)
(*                                                                         *)
(* Text is a TLA+ string; a character is a string of length one.  A        *)
(* JavaScript value is a record [t |-> <type tag>, v |-> <payload>].       *)
(***************************************************************************)
EXTENDS Integers, Sequences, FiniteSets, TLC

(***************************************************************************)
(* Characters and elementary string functions of the JavaScript runtime.   *)
(***************************************************************************)
BS == ""

\* The characters of s at positions a..b (1-based, inclusive), clamped to s.
Slice(s, a, b) ==
    LET lo == IF a < 1 THEN 1 ELSE a
        hi == IF b > Len(s) THEN Len(s) ELSE b
    IN  IF lo > hi THEN "" ELSE SubSeq(s, lo, hi)

Ch(s, i) == IF i >= 1 /\ i <= Len(s) THEN SubSeq(s, i, i) ELSE ""

Digits == {"0", "1", "2", "3", "4", "5", "6", "7", "8", "9"}

DigitVal(c) ==
    CASE c = "0" -> 0 [] c = "1" -> 1 [] c = "2" -> 2 [] c = "3" -> 3
      [] c = "4" -> 4 [] c = "5" -> 5 [] c = "6" -> 6 [] c = "7" -> 7
      [] c = "8" -> 8 [] c = "9" -> 9 [] OTHER -> 0

LowerLetters == {"a", "b", "c", "d", "e", "f", "g", "h", "i", "j", "k", "l", "m",
                 "n", "o", "p", "q", "r", "s", "t", "u", "v", "w", "x", "y", "z"}

UpperLetters == {"A", "B", "C", "D", "E", "F", "G", "H", "I", "J", "K", "L", "M",
                 "N", "O", "P", "Q", "R", "S", "T", "U", "V", "W", "X", "Y", "Z"}

\* The regular-expression class \w.
WordChars == LowerLetters \cup UpperLetters \cup Digits \cup {"_"}

\* The regular-expression class \s, restricted to the characters of the model.
RegexSpace == {" ", "\t", "\n", "\r", "\f"}

\* The white space the JSON grammar allows between tokens.
JsonSpace == {" ", "\t", "\n", "\r"}

\* Characters that may not occur unescaped inside a JSON string.
ControlChars == {"\t", "\n", "\r", "\f", BS}

LowerChar(c) ==
    CASE c = "A" -> "a" [] c = "B" -> "b" [] c = "C" -> "c" [] c = "D" -> "d"
      [] c = "E" -> "e" [] c = "F" -> "f" [] c = "G" -> "g" [] c = "H" -> "h"
      [] c = "I" -> "i" [] c = "J" -> "j" [] c = "K" -> "k" [] c = "L" -> "l"
      [] c = "M" -> "m" [] c = "N" -> "n" [] c = "O" -> "o" [] c = "P" -> "p"
      [] c = "Q" -> "q" [] c = "R" -> "r" [] c = "S" -> "s" [] c = "T" -> "t"
      [] c = "U" -> "u" [] c = "V" -> "v" [] c = "W" -> "w" [] c = "X" -> "x"
      [] c = "Y" -> "y" [] c = "Z" -> "z" [] OTHER -> c

RECURSIVE ToLowerCase(_)
ToLowerCase(s) ==
    IF s = "" THEN "" ELSE LowerChar(Head(s)) \o ToLowerCase(Tail(s))

\* String.prototype.startsWith / the test "sub occurs in s at position i".
OccursAt(s, sub, i) ==
    /\ i >= 1
    /\ i + Len(sub) - 1 <= Len(s)
    /\ Slice(s, i, i + Len(sub) - 1) = sub

\* String.prototype.indexOf, 1-based; 0 when sub does not occur.
RECURSIVE IndexFrom(_, _, _)
IndexFrom(s, sub, i) ==
    IF i + Len(sub) - 1 > Len(s) THEN 0
    ELSE IF OccursAt(s, sub, i) THEN i
    ELSE IndexFrom(s, sub, i + 1)

IndexOf(s, sub) == IndexFrom(s, sub, 1)

\* String.prototype.lastIndexOf, 1-based; 0 when sub does not occur.
RECURSIVE LastIndexFrom(_, _, _)
LastIndexFrom(s, sub, i) ==
    IF i < 1 THEN 0
    ELSE IF OccursAt(s, sub, i) THEN i
    ELSE LastIndexFrom(s, sub, i - 1)

LastIndexOf(s, sub) == LastIndexFrom(s, sub, Len(s) - Len(sub) + 1)

Includes(s, sub) == IndexOf(s, sub) # 0

\* The first position >= i whose character is not in the class cs
\* (Len(s) + 1 when there is none): a greedy cs* from position i.
RECURSIVE SkipClass(_, _, _)
SkipClass(s, cs, i) ==
    IF i <= Len(s) /\ Ch(s, i) \in cs THEN SkipClass(s, cs, i + 1) ELSE i

\* The last position <= i whose character is not in cs (0 when there is none).
RECURSIVE SkipClassBack(_, _, _)
SkipClassBack(s, cs, i) ==
    IF i >= 1 /\ Ch(s, i) \in cs THEN SkipClassBack(s, cs, i - 1) ELSE i

\* String.prototype.trim.
Trim(s) ==
    LET a == SkipClass(s, RegexSpace, 1)
        b == SkipClassBack(s, RegexSpace, Len(s))
    IN  IF a > b THEN "" ELSE Slice(s, a, b)

(***************************************************************************)
(* JavaScript values.                                                      *)
(***************************************************************************)
Undefined == [t |-> "undefined", v |-> ""]
JNull == [t |-> "null", v |-> ""]
JBool(b) == [t |-> "boolean", v |-> b]
JNum(n) == [t |-> "number", v |-> n]
JStr(s) == [t |-> "string", v |-> s]
JArr(elems) == [t |-> "array", v |-> elems]
\* An object is the list of its own properties, [k |-> name, v |-> value],
\* in insertion order.
JObj(members) == [t |-> "object", v |-> members]

IsString(x) == x.t = "string"
IsArray(x) == x.t = "array"

HasKey(members, k) == \E i \in 1..Len(members) : members[i].k = k

\* Assignment obj[k] = val: an existing property keeps its place.
SetMember(members, k, val) ==
    IF HasKey(members, k)
    THEN [i \in 1..Len(members) |->
            IF members[i].k = k THEN [k |-> k, v |-> val] ELSE members[i]]
    ELSE Append(members, [k |-> k, v |-> val])

\* Property read x.k: undefined when x has no such own property.  (Reading a
\* property of null or undefined throws; the callers test for that first.)
Get(x, k) ==
    IF x.t = "object" /\ HasKey(x.v, k)
    THEN (x.v[CHOOSE i \in 1..Len(x.v) : x.v[i].k = k]).v
    ELSE Undefined

\* ToBoolean.
Truthy(x) ==
    CASE x.t = "undefined" -> FALSE
      [] x.t = "null" -> FALSE
      [] x.t = "boolean" -> x.v
      [] x.t = "number" -> x.v # 0
      [] x.t = "NaN" -> FALSE
      [] x.t = "string" -> x.v # ""
      [] OTHER -> TRUE

\* Reading a property of x throws a TypeError.
Nullish(x) == x.t \in {"undefined", "null"}

(***************************************************************************)
(* JSON.parse, for texts whose numerals are integers.                      *)
(***************************************************************************)
PFail == [ok |-> FALSE, val |-> Undefined, pos |-> 0]
POk(val, pos) == [ok |-> TRUE, val |-> val, pos |-> pos]

SkipWs(s, i) == SkipClass(s, JsonSpace, i)

\* The body of a string literal from position i (after the opening quote).
RECURSIVE ParseString(_, _, _)
ParseString(s, i, acc) ==
    LET c == Ch(s, i)
        e == Ch(s, i + 1)
    IN  IF c = "" THEN PFail
        ELSE IF c = "\"" THEN POk(JStr(acc), i + 1)
        ELSE IF c \in ControlChars THEN PFail
        ELSE IF c = "\\" THEN
            CASE e = "\"" -> ParseString(s, i + 2, acc \o "\"")
              [] e = "\\" -> ParseString(s, i + 2, acc \o "\\")
              [] e = "/" -> ParseString(s, i + 2, acc \o "/")
              [] e = "b" -> ParseString(s, i + 2, acc \o BS)
              [] e = "f" -> ParseString(s, i + 2, acc \o "\f")
              [] e = "n" -> ParseString(s, i + 2, acc \o "\n")
              [] e = "r" -> ParseString(s, i + 2, acc \o "\r")
              [] e = "t" -> ParseString(s, i + 2, acc \o "\t")
              [] OTHER -> PFail
        ELSE ParseString(s, i + 1, acc \o c)

RECURSIVE ParseDigits(_, _, _)
ParseDigits(s, i, acc) ==
    IF Ch(s, i) \in Digits
    THEN ParseDigits(s, i + 1, 10 * acc + DigitVal(Ch(s, i)))
    ELSE [val |-> acc, pos |-> i]

ParseNumber(s, i) ==
    LET neg == Ch(s, i) = "-"
        j == IF neg THEN i + 1 ELSE i
        d == IF Ch(s, j) = "0" THEN [val |-> 0, pos |-> j + 1]
             ELSE ParseDigits(s, j, 0)
    IN  IF Ch(s, j) \notin Digits THEN PFail
        ELSE POk(JNum(IF neg THEN 0 - d.val ELSE d.val), d.pos)

RECURSIVE ParseValue(_, _)
RECURSIVE ParseElements(_, _, _, _)
RECURSIVE ParseMembers(_, _, _, _)

ParseValue(s, i) ==
    LET c == Ch(s, i)
    IN  CASE c = "{" -> ParseMembers(s, SkipWs(s, i + 1), <<>>, TRUE)
          [] c = "[" -> ParseElements(s, SkipWs(s, i + 1), <<>>, TRUE)
          [] c = "\"" -> ParseString(s, i + 1, "")
          [] c = "-" \/ c \in Digits -> ParseNumber(s, i)
          [] OccursAt(s, "true", i) -> POk(JBool(TRUE), i + 4)
          [] OccursAt(s, "false", i) -> POk(JBool(FALSE), i + 5)
          [] OccursAt(s, "null", i) -> POk(JNull, i + 4)
          [] OTHER -> PFail

\* The elements of an array from position i (white space already skipped).
ParseElements(s, i, acc, first) ==
    IF first /\ Ch(s, i) = "]" THEN POk(JArr(acc), i + 1)
    ELSE LET r == ParseValue(s, i)
             j == SkipWs(s, r.pos)
         IN  IF ~r.ok THEN PFail
             ELSE IF Ch(s, j) = ","
                  THEN ParseElements(s, SkipWs(s, j + 1), Append(acc, r.val), FALSE)
             ELSE IF Ch(s, j) = "]" THEN POk(JArr(Append(acc, r.val)), j + 1)
             ELSE PFail

\* The members of an object from position i (white space already skipped).
ParseMembers(s, i, acc, first) ==
    IF first /\ Ch(s, i) = "}" THEN POk(JObj(acc), i + 1)
    ELSE IF Ch(s, i) # "\"" THEN PFail
    ELSE LET k == ParseString(s, i + 1, "")
             c == SkipWs(s, k.pos)
             r == ParseValue(s, SkipWs(s, c + 1))
             j == SkipWs(s, r.pos)
         IN  IF ~k.ok \/ Ch(s, c) # ":" \/ ~r.ok THEN PFail
             ELSE IF Ch(s, j) = ","
                  THEN ParseMembers(s, SkipWs(s, j + 1),
                                    SetMember(acc, k.val.v, r.val), FALSE)
             ELSE IF Ch(s, j) = "}"
                  THEN POk(JObj(SetMember(acc, k.val.v, r.val)), j + 1)
             ELSE PFail

\* JSON.parse(text): [ok |-> TRUE, val |-> value], or ok = FALSE for the
\* SyntaxError it throws.
JSONParse(text) ==
    LET r == ParseValue(text, SkipWs(text, 1))
    IN  IF r.ok /\ SkipWs(text, r.pos) = Len(text) + 1
        THEN [ok |-> TRUE, val |-> r.val]
        ELSE [ok |-> FALSE, val |-> Undefined]

(***************************************************************************)
(* utils/aiUtils: cleanJsonResponse.                                       *)
(***************************************************************************)
\* The grave accent U+0060, which a TLA+ string literal cannot hold, is
\* written "~" in the texts of this module; no text holds a real tilde.
BackTick == "~"
Fence == BackTick \o BackTick \o BackTick

\* s.replace(/^```json\s*/i, '')
StripOpenJsonFence(s) ==
    IF ToLowerCase(Slice(s, 1, 7)) = Fence \o "json"
    THEN Slice(s, SkipClass(s, RegexSpace, 8), Len(s))
    ELSE s

\* s.replace(/^```\s*/i, '')
StripOpenFence(s) ==
    IF OccursAt(s, Fence, 1)
    THEN Slice(s, SkipClass(s, RegexSpace, 4), Len(s))
    ELSE s

\* /\s*```\s*$/ matches at position i.
CloseFenceAt(s, i) ==
    LET j == SkipClass(s, RegexSpace, i)
    IN  OccursAt(s, Fence, j) /\ SkipClass(s, RegexSpace, j + 3) = Len(s) + 1

\* s.replace(/\s*```\s*$/i, ''): the leftmost match is removed.
StripCloseFence(s) ==
    LET hits == {i \in 1..Len(s) : CloseFenceAt(s, i)}
    IN  IF hits = {} THEN s
        ELSE Slice(s, 1, (CHOOSE i \in hits : \A j \in hits : i <= j) - 1)

\* s.replace(/^\s*[\w\s]*?(?=\{)/g, ''): a run of \w and \s characters at the
\* start of s is removed when the character after it is "{".
StripTextBeforeBrace(s) ==
    LET p == SkipClass(s, WordChars \cup RegexSpace, 1)
    IN  IF Ch(s, p) = "{" THEN Slice(s, p, Len(s)) ELSE s

\* s.replace(/\}\s*[\w\s]*$/g, '}'): from the leftmost "}" that only \w and
\* \s characters follow, the rest of s is replaced by "}".
StripTextAfterBrace(s) ==
    LET hits == {i \in 1..Len(s) :
                    /\ Ch(s, i) = "}"
                    /\ SkipClass(s, WordChars \cup RegexSpace, i + 1) = Len(s) + 1}
    IN  IF hits = {} THEN s
        ELSE Slice(s, 1, CHOOSE i \in hits : \A j \in hits : i <= j)

\* The slice from the first "{" to the first "}" (indexOf for lastIndexOf).
ExtractBracesToFirstClose(s) ==
    LET jsonStart == IndexOf(s, "{")
        jsonEnd == IndexOf(s, "}")
    IN  IF jsonStart # 0 /\ jsonEnd # 0 /\ jsonStart <= jsonEnd
        THEN Slice(s, jsonStart, jsonEnd)
        ELSE s

\* The slice from the first "{" to the last "}", when there is one.
ExtractBraces(s) ==
    LET jsonStart == IndexOf(s, "{")
        jsonEnd == LastIndexOf(s, "}")
    IN  IF jsonStart # 0 /\ jsonEnd # 0 /\ jsonStart <= jsonEnd
        THEN Slice(s, jsonStart, jsonEnd)
        ELSE s

\* cleanJsonResponse(response), response a JavaScript value.
CleanJsonResponse(response) ==
    IF ~Truthy(response) \/ ~IsString(response) THEN response
    ELSE JStr(Trim(StripTextAfterBrace(StripTextBeforeBrace(ExtractBraces(
            Trim(StripCloseFence(StripOpenFence(StripOpenJsonFence(response.v)))))))))

(***************************************************************************)
(* utils/aiUtils: parseJsonSafely.                                         *)
(***************************************************************************)
\* s.replace(/from/g, to) for a literal, non-empty pattern.
RECURSIVE ReplaceAllFrom(_, _, _, _)
ReplaceAllFrom(s, from, to, i) ==
    IF i > Len(s) THEN ""
    ELSE IF OccursAt(s, from, i)
         THEN to \o ReplaceAllFrom(s, from, to, i + Len(from))
    ELSE Ch(s, i) \o ReplaceAllFrom(s, from, to, i + 1)

ReplaceAll(s, from, to) == ReplaceAllFrom(s, from, to, 1)

\* value.replace(/\\"/g, '"').replace(/"/g, '\\"')
EscapeQuotes(value) == ReplaceAll(ReplaceAll(value, "\\\"", "\""), "\"", "\\\"")

NoMatch == [ok |-> FALSE, key |-> "", value |-> "", next |-> 0]

\* A match of /"([^"]*(?:\\.[^"]*)*)"/ at position i.  The greedy [^"]* runs
\* to the next quote, where the group \\. cannot start and the closing quote
\* matches, so the capture is the text up to the next quote.
QuotedAt(s, i) ==
    LET q == IndexFrom(s, "\"", i + 1)
    IN  IF Ch(s, i) = "\"" /\ q # 0
        THEN [ok |-> TRUE, key |-> "", value |-> Slice(s, i + 1, q - 1), next |-> q + 1]
        ELSE NoMatch

\* A match of /"([^"]*)":\s*"([^"]*(?:\\.[^"]*)*)"/ at position i.
KeyValueAt(s, i) ==
    LET k == QuotedAt(s, i)
        w == SkipClass(s, RegexSpace, k.next + 1)
        val == QuotedAt(s, w)
    IN  IF k.ok /\ Ch(s, k.next) = ":" /\ val.ok
        THEN [ok |-> TRUE, key |-> k.value, value |-> val.value, next |-> val.next]
        ELSE NoMatch

\* fixedJson.replace(/"([^"]*)":\s*"([^"]*(?:\\.[^"]*)*)"/g, callback)
RECURSIVE FixStringValues(_, _)
FixStringValues(s, i) ==
    IF i > Len(s) THEN ""
    ELSE LET m == KeyValueAt(s, i)
         IN  IF m.ok
             THEN "\"" \o m.key \o "\": \"" \o EscapeQuotes(m.value) \o "\""
                    \o FixStringValues(s, m.next)
             ELSE Ch(s, i) \o FixStringValues(s, i + 1)

\* arrayContent.replace(/"([^"]*(?:\\.[^"]*)*)"/g, callback)
RECURSIVE FixArrayItems(_, _)
FixArrayItems(s, i) ==
    IF i > Len(s) THEN ""
    ELSE LET m == QuotedAt(s, i)
         IN  IF m.ok
             THEN "\"" \o EscapeQuotes(m.value) \o "\"" \o FixArrayItems(s, m.next)
             ELSE Ch(s, i) \o FixArrayItems(s, i + 1)

\* A match of /"([^"]*)":\s*\[([^\]]*)\]/ at position i.
KeyArrayAt(s, i) ==
    LET k == QuotedAt(s, i)
        w == SkipClass(s, RegexSpace, k.next + 1)
        b == IndexFrom(s, "]", w + 1)
    IN  IF k.ok /\ Ch(s, k.next) = ":" /\ Ch(s, w) = "[" /\ b # 0
        THEN [ok |-> TRUE, key |-> k.value, value |-> Slice(s, w + 1, b - 1), next |-> b + 1]
        ELSE NoMatch

\* fixedJson.replace(/"([^"]*)":\s*\[([^\]]*)\]/g, callback)
RECURSIVE FixArrayValues(_, _)
FixArrayValues(s, i) ==
    IF i > Len(s) THEN ""
    ELSE LET m == KeyArrayAt(s, i)
         IN  IF m.ok
             THEN "\"" \o m.key \o "\": [" \o FixArrayItems(m.value, 1) \o "]"
                    \o FixArrayValues(s, m.next)
             ELSE Ch(s, i) \o FixArrayValues(s, i + 1)

\* The text the second attempt parses.
FixedJson(jsonString) == FixArrayValues(FixStringValues(jsonString, 1), 1)

\* The literal "fieldName": as the flag i matches it: in lower case, against
\* the text in lower case.
FieldLiteral(fieldName) == "\"" \o ToLowerCase(fieldName) \o "\":"

\* A match of /"fieldName":\s*"([^"]*(?:\\.[^"]*)*)"/i at position i, where
\* the literal "fieldName": was found.
FieldAt(s, fieldName, i) ==
    QuotedAt(s, SkipClass(s, RegexSpace, i + Len(fieldName) + 3))

\* The leftmost match at or after position i; lower is s in lower case.
RECURSIVE FirstFieldFrom(_, _, _, _)
FirstFieldFrom(s, lower, fieldName, i) ==
    LET p == IndexFrom(lower, FieldLiteral(fieldName), i)
    IN  IF p = 0 THEN NoMatch
        ELSE IF FieldAt(s, fieldName, p).ok THEN FieldAt(s, fieldName, p)
        ELSE FirstFieldFrom(s, lower, fieldName, p + 1)

\* extractField that forgets its defaultValue and yields '' without a match.
ExtractFieldEmptyDefault(jsonString, fieldName, defaultValue) ==
    LET m == FirstFieldFrom(jsonString, ToLowerCase(jsonString), fieldName, 1)
    IN  IF ~m.ok THEN JStr("")
        ELSE JStr(ReplaceAll(m.value, "\\\"", "\""))

\* extractField(fieldName, defaultValue): the first match in jsonString.
ExtractField(jsonString, fieldName, defaultValue) ==
    LET m == FirstFieldFrom(jsonString, ToLowerCase(jsonString), fieldName, 1)
    IN  IF ~m.ok THEN defaultValue
        ELSE JStr(ReplaceAll(m.value, "\\\"", "\""))

\* arrayContent.match(/"([^"]*(?:\\.[^"]*)*)"/g), each item without its quotes.
RECURSIVE ArrayItems(_, _)
ArrayItems(s, i) ==
    IF i > Len(s) THEN <<>>
    ELSE LET m == QuotedAt(s, i)
         IN  IF m.ok
             THEN <<JStr(ReplaceAll(m.value, "\\\"", "\""))>> \o ArrayItems(s, m.next)
             ELSE ArrayItems(s, i + 1)

\* A match of /"fieldName":\s*\[(.*?)\]/is at position i, where the literal
\* "fieldName": was found: the lazy (.*?) ends at the first "]".
FieldArrayAt(s, fieldName, i) ==
    LET w == SkipClass(s, RegexSpace, i + Len(fieldName) + 3)
        b == IndexFrom(s, "]", w + 1)
    IN  IF Ch(s, w) = "[" /\ b # 0
        THEN [ok |-> TRUE, key |-> fieldName, value |-> Slice(s, w + 1, b - 1), next |-> b + 1]
        ELSE NoMatch

RECURSIVE FirstFieldArrayFrom(_, _, _, _)
FirstFieldArrayFrom(s, lower, fieldName, i) ==
    LET p == IndexFrom(lower, FieldLiteral(fieldName), i)
    IN  IF p = 0 THEN NoMatch
        ELSE IF FieldArrayAt(s, fieldName, p).ok THEN FieldArrayAt(s, fieldName, p)
        ELSE FirstFieldArrayFrom(s, lower, fieldName, p + 1)

\* extractArray(fieldName, defaultValue)
ExtractArray(jsonString, fieldName, defaultValue) ==
    LET m == FirstFieldArrayFrom(jsonString, ToLowerCase(jsonString), fieldName, 1)
        items == ArrayItems(m.value, 1)
    IN  IF ~m.ok \/ items = <<>> THEN defaultValue ELSE JArr(items)

\* The third attempt: the object built from the key-value pairs found.
ManualReconstruction(jsonString) ==
    JObj(<<
        [k |-> "score", v |-> ExtractField(jsonString, "score", JNum(0))],
        [k |-> "reasons", v |-> ExtractArray(jsonString, "reasons", JArr(<<>>))],
        [k |-> "category", v |-> ExtractField(jsonString, "category", JStr("potential"))],
        [k |-> "title", v |-> ExtractField(jsonString, "title", JStr(""))],
        [k |-> "description", v |-> ExtractField(jsonString, "description", JStr(""))],
        [k |-> "requirements", v |-> ExtractArray(jsonString, "requirements", JArr(<<>>))],
        [k |-> "location", v |-> ExtractField(jsonString, "location", JStr(""))],
        [k |-> "name", v |-> ExtractField(jsonString, "name", JStr(""))],
        [k |-> "industry", v |-> ExtractField(jsonString, "industry", JStr(""))],
        [k |-> "size", v |-> ExtractField(jsonString, "size", JStr(""))],
        [k |-> "values", v |-> ExtractArray(jsonString, "values", JArr(<<>>))],
        [k |-> "benefits", v |-> ExtractArray(jsonString, "benefits", JArr(<<>>))],
        [k |-> "cultureKeywords", v |-> ExtractArray(jsonString, "cultureKeywords", JArr(<<>>))]
    >>)

\* parseJsonSafely with the repair pass run before the direct parse.
ParseJsonSafelyRepairFirst(jsonString) ==
    LET first == JSONParse(jsonString)
        second == JSONParse(FixedJson(jsonString))
    IN  IF second.ok THEN [threw |-> FALSE, attempt |-> 2, val |-> second.val]
        ELSE IF first.ok THEN [threw |-> FALSE, attempt |-> 1, val |-> first.val]
        ELSE [threw |-> FALSE, attempt |-> 3, val |-> ManualReconstruction(jsonString)]

\* parseJsonSafely(jsonString) for a string: the value returned and the
\* attempt that produced it.  (The third attempt applies String.match to a
\* string and assigns properties, none of which throws.)
ParseJsonSafely(jsonString) ==
    LET first == JSONParse(jsonString)
        second == JSONParse(FixedJson(jsonString))
    IN  IF first.ok THEN [threw |-> FALSE, attempt |-> 1, val |-> first.val]
        ELSE IF second.ok THEN [threw |-> FALSE, attempt |-> 2, val |-> second.val]
        ELSE [threw |-> FALSE, attempt |-> 3, val |-> ManualReconstruction(jsonString)]

(***************************************************************************)
(* Outcomes of an asynchronous function and replies of the LLM endpoint.   *)
(***************************************************************************)
Resolved(val) == [kind |-> "resolved", val |-> val]
Rejected(message) == [kind |-> "rejected", val |-> message]
Pending == [kind |-> "pending", val |-> ""]

\* openai.chat.completions.create(...) rejected with an Error.
RequestError == [kind |-> "error", content |-> Undefined]
\* It resolved; content is completion.choices[0]?.message?.content.
Completion(content) == [kind |-> "completion", content |-> content]

\* /\b/ matches between positions i and i + 1 of s: a word boundary, where
\* exactly one of the two neighbours is a word character.
WordBoundaryAt(s, i) == (Ch(s, i) \in WordChars) # (Ch(s, i + 1) \in WordChars)

\* s.replace(/\b/g, to) from the gap after position i on: to is inserted at
\* every word boundary.
RECURSIVE ReplaceWordBoundariesFrom(_, _, _)
ReplaceWordBoundariesFrom(s, to, i) ==
    (IF WordBoundaryAt(s, i) THEN to ELSE "")
        \o (IF i >= Len(s) THEN ""
            ELSE Ch(s, i + 1) \o ReplaceWordBoundariesFrom(s, to, i + 1))

\* sanitizeJsonString(str)
SanitizeJsonString(str) ==
    IF ~IsString(str) THEN str
    ELSE LET a == ReplaceAll(str.v, "\\", "\\\\")
             b == ReplaceAll(a, "\"", "\\\"")
             c == ReplaceAll(b, "\n", "\\n")
             d == ReplaceAll(c, "\r", "\\r")
             e == ReplaceAll(d, "\t", "\\t")
             f == ReplaceAll(e, "\f", "\\f")
         IN  JStr(ReplaceWordBoundariesFrom(f, "\\b", 0))

(***************************************************************************)
(* utils/jobExtraction.                                                    *)
(***************************************************************************)
EmploymentTypes == {"full-time", "part-time", "contract", "temporary"}

\* The list unfiltered.
KeepAll(list) == list

\* list.filter(req => typeof req === 'string')
FilterStrings(list) == SelectSeq(list, IsString)

\* validateJsonStructure(data): reading a property of null throws.
ValidateJsonStructure(data) ==
    IF Nullish(data) THEN [threw |-> TRUE, val |-> Undefined]
    ELSE [threw |-> FALSE, val |-> [
        title |-> IF IsString(Get(data, "title")) THEN Get(data, "title")
                  ELSE JStr("Healthcare Professional"),
        description |-> IF IsString(Get(data, "description")) THEN Get(data, "description")
                        ELSE JStr("Join our healthcare team."),
        requirements |-> IF IsArray(Get(data, "requirements"))
                         THEN JArr(FilterStrings(Get(data, "requirements").v))
                         ELSE JArr(<<JStr("Professional certification required")>>),
        location |-> IF IsString(Get(data, "location")) THEN Get(data, "location")
                     ELSE JStr("Multiple locations"),
        salary_range |-> IF IsString(Get(data, "salary_range"))
                         THEN Get(data, "salary_range") ELSE Undefined,
        employment_type |-> IF IsString(Get(data, "employment_type"))
                               /\ Get(data, "employment_type").v \in EmploymentTypes
                            THEN Get(data, "employment_type") ELSE JStr("full-time"),
        company_name |-> IF IsString(Get(data, "company_name"))
                         THEN Get(data, "company_name") ELSE Undefined,
        reference_number |-> IF IsString(Get(data, "reference_number"))
                             THEN Get(data, "reference_number") ELSE Undefined,
        shift_timings |-> IF IsString(Get(data, "shift_timings"))
                          THEN Get(data, "shift_timings") ELSE Undefined,
        apply_url |-> IF IsString(Get(data, "apply_url")) THEN Get(data, "apply_url")
                      ELSE JStr("")]]

UpperChar(c) ==
    CASE c = "a" -> "A" [] c = "b" -> "B" [] c = "c" -> "C" [] c = "d" -> "D"
      [] c = "e" -> "E" [] c = "f" -> "F" [] c = "g" -> "G" [] c = "h" -> "H"
      [] c = "i" -> "I" [] c = "j" -> "J" [] c = "k" -> "K" [] c = "l" -> "L"
      [] c = "m" -> "M" [] c = "n" -> "N" [] c = "o" -> "O" [] c = "p" -> "P"
      [] c = "q" -> "Q" [] c = "r" -> "R" [] c = "s" -> "S" [] c = "t" -> "T"
      [] c = "u" -> "U" [] c = "v" -> "V" [] c = "w" -> "W" [] c = "x" -> "X"
      [] c = "y" -> "Y" [] c = "z" -> "Z" [] OTHER -> c

\* new URL(jobUrl).hostname for an absolute URL "scheme://host/..." without
\* user information or port; ok = FALSE when the constructor throws.
UrlHostname(jobUrl) ==
    LET sep == IndexOf(jobUrl, "://")
        scheme == Slice(jobUrl, 1, sep - 1)
        rest == Slice(jobUrl, sep + 3, Len(jobUrl))
        stop == SkipClass(rest, WordChars \cup {"-", "."}, 1)
        host == Slice(rest, 1, stop - 1)
    IN  IF /\ sep > 1
           /\ SkipClass(scheme, LowerLetters \cup UpperLetters, 1) = Len(scheme) + 1
           /\ host # ""
           /\ Ch(rest, stop) \in {"", "/", "?", "#"}
        THEN [ok |-> TRUE, hostname |-> ToLowerCase(host)]
        ELSE [ok |-> FALSE, hostname |-> ""]

\* s.replace(from, to) for a literal pattern: the first occurrence only.
ReplaceFirst(s, from, to) ==
    LET i == IndexOf(s, from)
    IN  IF i = 0 THEN s
        ELSE Slice(s, 1, i - 1) \o to \o Slice(s, i + Len(from), Len(s))

\* The company name createFallbackJobData derives from the host name.
CompanyNameFromUrl(jobUrl) ==
    LET url == UrlHostname(jobUrl)
        hostname == ReplaceFirst(url.hostname, "www.", "")
        dot == IndexOf(hostname, ".")
        part0 == Slice(hostname, 1, dot - 1)
    IN  IF url.ok /\ dot # 0
        THEN JStr(UpperChar(Ch(part0, 1)) \o Slice(part0, 2, Len(part0)))
        ELSE Undefined

FallbackTitle(urlParts) ==
    IF Includes(urlParts, "nurse") THEN "Registered Nurse"
    ELSE IF Includes(urlParts, "doctor") \/ Includes(urlParts, "physician") THEN "Physician"
    ELSE IF Includes(urlParts, "therapist") THEN "Therapist"
    ELSE IF Includes(urlParts, "technician") THEN "Medical Technician"
    ELSE IF Includes(urlParts, "administrator") THEN "Healthcare Administrator"
    ELSE "Healthcare Professional"

FallbackEmploymentType(urlParts) ==
    IF Includes(urlParts, "part-time") THEN "part-time"
    ELSE IF Includes(urlParts, "contract") THEN "contract"
    ELSE IF Includes(urlParts, "temporary") THEN "temporary"
    ELSE "full-time"

FallbackRequirements ==
    <<JStr("Relevant professional certification/license required"),
      JStr("Previous healthcare experience preferred"),
      JStr("Strong communication and interpersonal skills"),
      JStr("Ability to work effectively in a team environment"),
      JStr("Commitment to patient care excellence")>>

\* createFallbackJobData(jobUrl)
CreateFallbackJobData(jobUrl) ==
    LET urlParts == ToLowerCase(jobUrl)
        title == FallbackTitle(urlParts)
    IN  [title |-> JStr(title),
         description |-> JStr("We are seeking a qualified " \o title
            \o " to join our healthcare team. This position offers an opportunity to make a meaningful impact in patient care while working in a supportive and professional environment.\n\nThe successful candidate will be responsible for providing high-quality healthcare services, collaborating with multidisciplinary teams, and maintaining the highest standards of patient care and safety.\n\nWe offer competitive compensation, comprehensive benefits, and opportunities for professional growth and development."),
         requirements |-> JArr(FallbackRequirements),
         location |-> JStr("Multiple locations"),
         salary_range |-> Undefined,
         employment_type |-> JStr(FallbackEmploymentType(urlParts)),
         company_name |-> CompanyNameFromUrl(jobUrl),
         reference_number |-> Undefined,
         shift_timings |-> Undefined,
         apply_url |-> JStr(jobUrl)]

\* extractJobFromUrl without the assignment result.apply_url = jobUrl.
ExtractJobFromUrlKeepsParsedUrl(jobUrl, reply) ==
    LET cleanedResponse == CleanJsonResponse(reply.content)
        parsedData == ParseJsonSafely(cleanedResponse.v)
        validated == ValidateJsonStructure(parsedData.val)
    IN  IF reply.kind = "error" \/ ~Truthy(reply.content)
        THEN Resolved(CreateFallbackJobData(jobUrl))
        ELSE IF parsedData.threw \/ validated.threw
        THEN Resolved(CreateFallbackJobData(jobUrl))
        ELSE Resolved(validated.val)

\* extractJobFromUrl(jobUrl), resumed with the reply to its request.  Every
\* value thrown inside the try block is an Error with a message, so the
\* catch block runs to its return.
ExtractJobFromUrl(jobUrl, reply) ==
    LET cleanedResponse == CleanJsonResponse(reply.content)
        parsedData == ParseJsonSafely(cleanedResponse.v)
        validated == ValidateJsonStructure(parsedData.val)
    IN  IF reply.kind = "error" \/ ~Truthy(reply.content)
        THEN Resolved(CreateFallbackJobData(jobUrl))
        ELSE IF parsedData.threw \/ validated.threw
        THEN Resolved(CreateFallbackJobData(jobUrl))
        ELSE Resolved([validated.val EXCEPT !.apply_url = JStr(jobUrl)])

(***************************************************************************)
(* utils/openai: generateCampaignSequence.                                 *)
(***************************************************************************)
NaN == [t |-> "NaN", v |-> 0]

\* a || b
Or(a, b) == IF Truthy(a) THEN a ELSE b

\* String(n) for a natural number n.
RECURSIVE NatToStr(_)
NatToStr(n) ==
    LET d == CHOOSE c \in Digits : DigitVal(c) = n % 10
    IN  IF n < 10 THEN d ELSE NatToStr(n \div 10) \o d

\* parseInt(text) in radix 10: leading white space, a sign, then digits.
ParseIntString(text) ==
    LET a == SkipClass(text, RegexSpace, 1)
        neg == Ch(text, a) = "-"
        b == IF Ch(text, a) \in {"-", "+"} THEN a + 1 ELSE a
        d == ParseDigits(text, b, 0)
    IN  IF Ch(text, b) \notin Digits THEN NaN
        ELSE JNum(IF neg THEN 0 - d.val ELSE d.val)

\* parseInt(x): x is converted to a string first.  An array converts to its
\* elements joined by commas, so its first element decides.
RECURSIVE ParseInt(_)
ParseInt(x) ==
    CASE x.t = "number" -> x
      [] x.t = "string" -> ParseIntString(x.v)
      [] x.t = "array" -> IF x.v = <<>> THEN NaN ELSE ParseInt(x.v[1])
      [] OTHER -> NaN

\* Math.max(0, n) for a number n.
MaxZero(n) == IF n.v < 0 THEN JNum(0) ELSE n

EmailStep(id, type, subject, content, delay, delayUnit) ==
    [id |-> id, type |-> type, subject |-> subject, content |-> content,
     delay |-> delay, delayUnit |-> delayUnit]

\* The callback without its validation: type, delay and delayUnit are
\* taken from the element where it gives them.
SequenceStepUnvalidated(email, index) ==
    EmailStep(
        JStr("step-" \o NatToStr(index + 1)),
        Or(Get(email, "type"), JStr("email")),
        Or(Get(email, "subject"), JStr("Follow-up " \o NatToStr(index + 1))),
        Or(Get(email, "content"), JStr("Email content here...")),
        Or(Get(email, "delay"), JNum(IF index = 0 THEN 0 ELSE index * 2)),
        IF index = 0 THEN JStr("immediately")
        ELSE Or(Get(email, "delayUnit"), JStr("business days")))

\* The callback of emailData.map: email is the element, index its 0-based
\* position.
SequenceStep(email, index) ==
    EmailStep(
        JStr("step-" \o NatToStr(index + 1)),
        IF Get(email, "type") = JStr("connection") THEN JStr("connection") ELSE JStr("email"),
        Or(Get(email, "subject"), JStr("Follow-up " \o NatToStr(index + 1))),
        Or(Get(email, "content"), JStr("Email content here...")),
        MaxZero(Or(ParseInt(Get(email, "delay")), JNum(IF index = 0 THEN 0 ELSE index * 2))),
        IF index = 0 THEN JStr("immediately")
        ELSE IF Get(email, "delayUnit") \in {JStr("immediately"), JStr("business days")}
             THEN Get(email, "delayUnit")
        ELSE JStr("business days"))

\* The default sequence of the catch block.
FallbackSequence(prompt) ==
    <<EmailStep(JStr("step-1"), JStr("email"),
        JStr("{{First Name}}, interested in a new opportunity?"),
        JStr("Hi {{First Name}},\n\nI hope this message finds you well. I came across your profile and was impressed by your experience in healthcare.\n\nWe have some exciting opportunities at {{Company Name}} that I think would be a great fit for your background and career goals.\n\nWould you be open to a brief conversation about these opportunities?\n\nBest regards,\n"
             \o prompt.recruiterName),
        JNum(0), JStr("immediately")),
      EmailStep(JStr("step-2"), JStr("email"),
        JStr("Following up on healthcare opportunities"),
        JStr("Hi {{First Name}},\n\nI wanted to follow up on my previous message about opportunities at {{Company Name}}.\n\nI understand you're likely busy, but I believe these roles could be a significant step forward in your career. We offer competitive compensation, excellent benefits, and a supportive work environment.\n\nWould you have 10 minutes this week for a quick call?\n\nBest,\n"
             \o prompt.recruiterName),
        JNum(3), JStr("business days")),
      EmailStep(JStr("step-3"), JStr("email"),
        JStr("Last follow-up - {{Company Name}} opportunities"),
        JStr("Hi {{First Name}},\n\nThis will be my final follow-up regarding the opportunities at {{Company Name}}.\n\nI wanted to make sure you didn't miss out on these positions that align well with your background. If you're interested in learning more, please feel free to reach out.\n\nIf now isn't the right time, I completely understand and wish you all the best in your career.\n\nBest regards,\n"
             \o prompt.recruiterName),
        JNum(5), JStr("business days"))>>

\* list.map(callback) throws when the callback reads a property of a null
\* element.
HasNullish(list) == \E i \in 1..Len(list) : Nullish(list[i])

\* generateCampaignSequence with JSON.parse and the map outside the try
\* block: a SyntaxError or TypeError rejects the call.
GenerateCampaignSequenceParseOutsideTry(prompt, reply) ==
    LET emailData == JSONParse(reply.content.v)
    IN  IF reply.kind = "error" \/ ~Truthy(reply.content)
        THEN Resolved(FallbackSequence(prompt))
        ELSE IF ~emailData.ok THEN Rejected("SyntaxError")
        ELSE IF ~IsArray(emailData.val) \/ HasNullish(emailData.val.v)
        THEN Rejected("TypeError")
        ELSE Resolved([i \in 1..Len(emailData.val.v) |->
                          SequenceStep(emailData.val.v[i], i - 1)])

\* generateCampaignSequence(prompt), resumed with the reply to its request.
\* emailData.map is a function only when emailData is an array; calling it
\* on any other parsed value throws a TypeError.
GenerateCampaignSequence(prompt, reply) ==
    LET emailData == JSONParse(reply.content.v)
    IN  IF reply.kind = "error" \/ ~Truthy(reply.content)
        THEN Resolved(FallbackSequence(prompt))
        ELSE IF ~emailData.ok \/ ~IsArray(emailData.val)
        THEN Resolved(FallbackSequence(prompt))
        ELSE IF HasNullish(emailData.val.v)
        THEN Resolved(FallbackSequence(prompt))
        ELSE Resolved([i \in 1..Len(emailData.val.v) |->
                          SequenceStep(emailData.val.v[i], i - 1)])

(***************************************************************************)
(* utils/campaignAssistantAI.                                              *)
(***************************************************************************)
\* /\s*```$/ matches at position i.
LocalCloseFenceAt(s, i) ==
    LET j == SkipClass(s, RegexSpace, i)
    IN  OccursAt(s, Fence, j) /\ j + 3 = Len(s) + 1

\* s.replace(/\s*```$/i, '')
StripLocalCloseFence(s) ==
    LET hits == {i \in 1..Len(s) : LocalCloseFenceAt(s, i)}
    IN  IF hits = {} THEN s
        ELSE Slice(s, 1, (CHOOSE i \in hits : \A j \in hits : i <= j) - 1)

\* The module's own cleanJsonResponse(response), response a string.
StripCodeFences(response) ==
    Trim(StripLocalCloseFence(StripOpenFence(StripOpenJsonFence(response))))

\* The own properties that {...source} copies, in order: those of an
\* object, the indices of an array or of a string, none otherwise.
SpreadMembers(source) ==
    CASE source.t = "object" -> source.v
      [] source.t = "array" ->
            [i \in 1..Len(source.v) |-> [k |-> NatToStr(i - 1), v |-> source.v[i]]]
      [] source.t = "string" ->
            [i \in 1..Len(source.v) |-> [k |-> NatToStr(i - 1), v |-> JStr(Ch(source.v, i))]]
      [] OTHER -> <<>>

RECURSIVE AssignAll(_, _, _)
AssignAll(members, extra, i) ==
    IF i > Len(extra) THEN members
    ELSE AssignAll(SetMember(members, extra[i].k, extra[i].v), extra, i + 1)

\* { ...b, ...a }: the spreads in the other order, so that a's values win.
SpreadFirstWins(a, b) == JObj(AssignAll(SpreadMembers(b), a.v, 1))

\* { ...a, ...b } for an object a whose property names are not indices.
\* Index-named properties (from an array or string b) are enumerated first.
Spread(a, b) ==
    IF b.t \in {"array", "string"}
    THEN JObj(SpreadMembers(b) \o a.v)
    ELSE JObj(AssignAll(a.v, SpreadMembers(b), 1))

\* getConversationStage(draft)
GetConversationStage(draft) ==
    IF ~Truthy(Get(draft, "goal")) THEN "starting the campaign creation process"
    ELSE IF ~Truthy(Get(draft, "targetAudience")) THEN "defining their target audience"
    ELSE IF ~Truthy(Get(draft, "tone")) THEN "selecting the campaign tone"
    ELSE IF ~Truthy(Get(draft, "additionalContext")) THEN "providing additional context"
    ELSE "reviewing their campaign details"

\* determineNextStep that asks for the tone before the audience.
DetermineNextStepToneFirst(draft) ==
    IF ~Truthy(Get(draft, "goal")) THEN "goal"
    ELSE IF ~Truthy(Get(draft, "tone")) THEN "tone"
    ELSE IF ~Truthy(Get(draft, "targetAudience")) THEN "audience"
    ELSE IF ~Truthy(Get(draft, "additionalContext")) THEN "context"
    ELSE "review"

\* determineNextStep(draft)
DetermineNextStep(draft) ==
    IF ~Truthy(Get(draft, "goal")) THEN "goal"
    ELSE IF ~Truthy(Get(draft, "targetAudience")) THEN "audience"
    ELSE IF ~Truthy(Get(draft, "tone")) THEN "tone"
    ELSE IF ~Truthy(Get(draft, "additionalContext")) THEN "context"
    ELSE "review"

Strs(list) == [i \in 1..Len(list) |-> JStr(list[i])]

\* The table fallbackResponses of createFallbackResponse.
FallbackMessage(nextStep) ==
    CASE nextStep = "audience" -> "Great goal! Now, who is your target audience for this campaign?"
      [] nextStep = "tone" -> "Perfect! What tone would you like for your campaign communications?"
      [] nextStep = "context" -> "Excellent! Is there any additional context or specific requirements for this campaign?"
      [] nextStep = "review" -> "Let me review your campaign details. Does everything look correct?"
      [] OTHER -> "I'd love to help you create a campaign! What's the main goal you want to achieve with this campaign?"

FallbackSuggestions(nextStep, recentSearches) ==
    CASE nextStep = "audience" ->
            IF Len(recentSearches) > 0
            THEN Strs(SubSeq(recentSearches, 1,
                             IF Len(recentSearches) < 4 THEN Len(recentSearches) ELSE 4))
            ELSE Strs(<<"Healthcare professionals nationwide",
                        "Registered nurses in specific locations",
                        "New graduates entering healthcare",
                        "Experienced specialists in oncology/ICU">>)
      [] nextStep = "tone" -> Strs(<<"Professional", "Friendly", "Casual", "Formal">>)
      [] nextStep = "context" ->
            Strs(<<"Include company benefits information",
                   "Focus on career development opportunities",
                   "Highlight work-life balance",
                   "Emphasize competitive compensation">>)
      [] nextStep = "review" ->
            Strs(<<"Yes, generate the campaign", "Let me make some changes">>)
      [] OTHER ->
            Strs(<<"Build a talent community for healthcare professionals",
                   "Nurture passive candidates with industry insights",
                   "Reengage inactive candidates with new opportunities",
                   "Provide educational content to boost candidate skills">>)

AssistantResponse(message, suggestions, campaignDraft, nextStep, isComplete) ==
    [message |-> message, suggestions |-> suggestions, campaignDraft |-> campaignDraft,
     nextStep |-> nextStep, isComplete |-> isComplete]

\* createFallbackResponse that always asks for the goal.
CreateFallbackResponseAsksGoal(currentDraft, recentSearches) ==
    AssistantResponse(JStr(FallbackMessage("goal")),
                      JArr(FallbackSuggestions("goal", recentSearches)),
                      currentDraft, JStr("goal"), JBool(FALSE))

\* createFallbackResponse(userInput, currentDraft, recentSearches)
CreateFallbackResponse(currentDraft, recentSearches) ==
    LET nextStep == DetermineNextStep(currentDraft)
    IN  AssistantResponse(JStr(FallbackMessage(nextStep)),
                          JArr(FallbackSuggestions(nextStep, recentSearches)),
                          currentDraft, JStr(nextStep), JBool(FALSE))

\* processUserInput(userInput, conversationHistory, currentDraft,
\* recentSearches), resumed with the reply to its request.  userInput and
\* conversationHistory only enter the prompt.
ProcessUserInput(currentDraft, recentSearches, reply) ==
    LET parsed == JSONParse(StripCodeFences(reply.content.v))
        parsedResponse == parsed.val
    IN  IF reply.kind = "error" \/ ~Truthy(reply.content)
        THEN Resolved(CreateFallbackResponse(currentDraft, recentSearches))
        ELSE IF ~parsed.ok \/ Nullish(parsedResponse)
        THEN Resolved(CreateFallbackResponse(currentDraft, recentSearches))
        ELSE Resolved(AssistantResponse(
                Or(Get(parsedResponse, "message"),
                   JStr("I'm here to help you create your campaign.")),
                Or(Get(parsedResponse, "suggestions"), JArr(<<>>)),
                Spread(currentDraft, Get(parsedResponse, "campaignDraft")),
                Or(Get(parsedResponse, "nextStep"), JStr(DetermineNextStep(currentDraft))),
                Or(Get(parsedResponse, "isComplete"), JBool(FALSE))))

NoExample == [id |-> "", campaignType |-> "", collateralToUse |-> <<>>,
              sequenceAndExamples |-> [steps |-> 0, examples |-> <<>>]]

NoGuidelineMessage == "No matching campaign example found. Cannot proceed without a guideline."

\* The lookups in the other order: by goal first, by id as the fallback.
MatchingExampleGoalFirst(draft, byId, byGoal) ==
    IF byGoal # NoExample THEN byGoal
    ELSE IF Truthy(Get(draft, "matchedExampleId")) THEN byId
    ELSE NoExample

\* The example generateCampaignFromDraft settles on: the result byId of
\* findCampaignExampleById when the draft names an id, else (or when that is
\* null) the result byGoal of findCampaignExampleByGoal.
MatchingExample(draft, byId, byGoal) ==
    LET first == IF Truthy(Get(draft, "matchedExampleId")) THEN byId ELSE NoExample
    IN  IF first # NoExample THEN first ELSE byGoal

\* The lookups generateCampaignFromDraft makes, in order.
ExampleLookups(draft, byId) ==
    LET asked == Truthy(Get(draft, "matchedExampleId"))
    IN  (IF asked THEN <<"findCampaignExampleById">> ELSE <<>>)
        \o (IF asked /\ byId # NoExample THEN <<>> ELSE <<"findCampaignExampleByGoal">>)

\* The callback without the index === 0 cases: the first step keeps the
\* delay and delayUnit of the reply.
DraftStepKeepsFirstDelay(step, index) ==
    EmailStep(
        JStr("step-" \o NatToStr(index + 1)),
        Or(Get(step, "type"), JStr("email")),
        Or(Get(step, "subject"), JStr("Follow-up " \o NatToStr(index + 1))),
        Or(Get(step, "content"), JStr("Email content here...")),
        Or(Get(step, "delay"), JNum(index * 2)),
        Or(Get(step, "delayUnit"), JStr("business days")))

\* The callback of result.emailSteps.map.
DraftStep(step, index) ==
    EmailStep(
        JStr("step-" \o NatToStr(index + 1)),
        Or(Get(step, "type"), JStr("email")),
        Or(Get(step, "subject"), JStr("Follow-up " \o NatToStr(index + 1))),
        Or(Get(step, "content"), JStr("Email content here...")),
        IF index = 0 THEN JNum(0) ELSE Or(Get(step, "delay"), JNum(index * 2)),
        IF index = 0 THEN JStr("immediately")
        ELSE Or(Get(step, "delayUnit"), JStr("business days")))

\* The callback with a delay of index + 2 for index * 2.
FallbackStepDelayPlusTwo(draft, exampleTitle, index) ==
    EmailStep(
        JStr("step-" \o NatToStr(index + 1)),
        JStr("email"),
        JStr("{{First Name}}, " \o ToLowerCase(exampleTitle)),
        JStr("Hi {{First Name}},\n\nI hope this message finds you well. " \o exampleTitle
             \o " at {{Company Name}}.\n\n"
             \o Or(Get(draft, "additionalContext"),
                   JStr("We have exciting opportunities that align with your background and career goals.")).v
             \o "\n\nBest regards,\n" \o Get(draft, "recruiterName").v),
        JNum(IF index = 0 THEN 0 ELSE index + 2),
        IF index = 0 THEN JStr("immediately") ELSE JStr("business days"))

\* The callback of example.sequenceAndExamples.examples.map.
FallbackStep(draft, exampleTitle, index) ==
    EmailStep(
        JStr("step-" \o NatToStr(index + 1)),
        JStr("email"),
        JStr("{{First Name}}, " \o ToLowerCase(exampleTitle)),
        JStr("Hi {{First Name}},\n\nI hope this message finds you well. " \o exampleTitle
             \o " at {{Company Name}}.\n\n"
             \o Or(Get(draft, "additionalContext"),
                   JStr("We have exciting opportunities that align with your background and career goals.")).v
             \o "\n\nBest regards,\n" \o Get(draft, "recruiterName").v),
        JNum(IF index = 0 THEN 0 ELSE index * 2),
        IF index = 0 THEN JStr("immediately") ELSE JStr("business days"))

\* createFallbackCampaign(draft, example), for a draft whose goal,
\* recruiterName and additionalContext are strings where present.
CreateFallbackCampaign(draft, example) ==
    LET goal == Get(draft, "goal").v
        examples == example.sequenceAndExamples.examples
    IN  [campaignData |-> JObj(<<
            [k |-> "name", v |-> JStr(Slice(goal, 1, 50)
                                     \o (IF Len(goal) > 50 THEN "..." ELSE ""))],
            [k |-> "type", v |-> JStr(example.campaignType)],
            [k |-> "targetAudience", v |-> Get(draft, "targetAudience")],
            [k |-> "campaignGoal", v |-> Get(draft, "goal")],
            [k |-> "tone", v |-> Get(draft, "tone")],
            [k |-> "companyName", v |-> Get(draft, "companyName")],
            [k |-> "recruiterName", v |-> Get(draft, "recruiterName")],
            [k |-> "contentSources", v |-> JArr(Strs(example.collateralToUse))],
            [k |-> "aiInstructions", v |-> Get(draft, "additionalContext")]>>),
         emailSteps |-> [i \in 1..Len(examples) |-> FallbackStep(draft, examples[i], i - 1)]]

\* generateCampaignFromDraft(draft) after a guideline example was found,
\* resumed with the reply to its request.
GenerateCampaignFromDraft(draft, matchingExample, reply) ==
    LET parsed == JSONParse(StripCodeFences(reply.content.v))
        result == parsed.val
        emailSteps == Get(result, "emailSteps")
    IN  IF reply.kind = "error" \/ ~Truthy(reply.content)
        THEN Resolved(CreateFallbackCampaign(draft, matchingExample))
        ELSE IF ~parsed.ok \/ Nullish(result)
        THEN Resolved(CreateFallbackCampaign(draft, matchingExample))
        ELSE IF ~IsArray(emailSteps) \/ HasNullish(emailSteps.v)
        THEN Resolved(CreateFallbackCampaign(draft, matchingExample))
        ELSE Resolved([campaignData |-> Get(result, "campaignData"),
                       emailSteps |-> [i \in 1..Len(emailSteps.v) |->
                                          DraftStep(emailSteps.v[i], i - 1)]])

(***************************************************************************)
(* Inputs: the texts, values and arguments the operations are run on.      *)
(***************************************************************************)
\* Edits are made at the first MaxEditPos positions of a text.
MaxEditPos == 12
\* The longest text of ShortTexts.
MaxShortLen == 5

EditChars == {"\"", "\\", "}", "\f"}

DeleteAt(s, i) == Slice(s, 1, i - 1) \o Slice(s, i + 1, Len(s))
InsertAt(s, i, c) == Slice(s, 1, i - 1) \o c \o Slice(s, i, Len(s))

EditPositions(s, extra) ==
    1..(IF Len(s) + extra < MaxEditPos THEN Len(s) + extra ELSE MaxEditPos)

\* s, and s with one character deleted or inserted.
Edits(s) ==
    {s} \cup {DeleteAt(s, i) : i \in EditPositions(s, 0)}
        \cup {InsertAt(s, i, c) : i \in EditPositions(s, 1), c \in EditChars}

EditsOfAll(texts) == UNION {Edits(t) : t \in texts}

\* All texts over alphabet of length at most n.
RECURSIVE TextsUpTo(_, _)
TextsUpTo(alphabet, n) ==
    IF n = 0 THEN {""}
    ELSE LET shorter == TextsUpTo(alphabet, n - 1)
         IN  shorter \cup {t \o c : t \in shorter, c \in alphabet}

ShortTexts == TextsUpTo({"{", "}", BackTick, " "}, MaxShortLen)

\* A reply inside a markdown code fence, or inside a sentence.
Fenced(t) == Fence \o "json\n" \o t \o "\n" \o Fence
InProse(t) == "Here is the JSON: " \o t \o " Let me know"

JobReplies ==
    {"{\"title\":\"RN\",\"requirements\":[\"a\",1],\"apply_url\":\"x\"}",
     "{\"employment_type\":\"contract\",\"location\":5}",
     "[\"a\",\":  \",\"b\"]",
     "{\"title\":\f\"RN\"}",
     "\"title\": \"RN\", \"requirements\": [\"x\", \"y\"]",
     "Sorry, I cannot open links.",
     "null"}

JobTexts == EditsOfAll(JobReplies)

WrappedJobTexts ==
    {Fenced(t) : t \in JobReplies} \cup {InProse(t) : t \in JobReplies}
        \cup {Fence \o t \o Fence \o " \n" : t \in JobReplies}

\* Arguments of cleanJsonResponse, strings and others.
NestedReply == "{\"job\":{\"title\":\"RN\"},\"n\":1}"

CleanInputs ==
    {JStr(t) : t \in ShortTexts \cup JobReplies \cup WrappedJobTexts
                    \cup {NestedReply, InProse(NestedReply),
                          Fenced(NestedReply) \o "\nHope this helps."}}
        \cup {Undefined, JNull, JNum(0), JNum(7), JArr(<<>>)}

\* Arguments of validateJsonStructure: what parseJsonSafely returns.
ParsedValues == {ParseJsonSafely(t).val : t \in JobTexts}

JobUrls ==
    {"https://www.mercy.org/jobs/icu-nurse",
     "https://careers.stlukes.com/Physician/contract",
     "jobs/part-time-therapist"}

\* The replies of the LLM endpoint whose content is one of texts.
Replies(texts) ==
    {RequestError, Completion(Undefined), Completion(JNull), Completion(JStr(""))}
        \cup {Completion(JStr(t)) : t \in texts}

SequenceReplies ==
    {"[{\"type\":\"connection\",\"delay\":\"4\"},{\"delay\":-2,\"delayUnit\":\"x\"}]",
     "[{\"delay\":\"soon\",\"type\":\"sms\"},{\"delayUnit\":\"immediately\",\"delay\":3},5]",
     "[{\"subject\":\"Hi\"},null]",
     "{\"steps\":[]}",
     "[]",
     "\"none\"",
     "12"}

SequenceTexts ==
    SequenceReplies \cup EditsOfAll({t \in SequenceReplies : Len(t) > 20})

Prompts ==
    {[campaignType |-> "nurture", targetAudience |-> "ICU nurses",
      campaignGoal |-> "Build a talent community", contentSources |-> <<>>,
      aiInstructions |-> "", tone |-> "Friendly", companyName |-> "Mercy",
      recruiterName |-> r] : r \in {"Ann", ""}}

AssistantReplies ==
    {"{\"message\":\"ok\",\"campaignDraft\":{\"tone\":\"Warm\"},\"nextStep\":\"context\"}",
     "{\"campaignDraft\":{\"goal\":\"hire\"},\"isComplete\":true}",
     "null",
     "[1]"}

AssistantTexts ==
    EditsOfAll({t \in AssistantReplies : Len(t) > 20})
        \cup AssistantReplies \cup {Fenced(t) : t \in AssistantReplies}
        \cup {Fence \o t \o Fence \o "\n" : t \in AssistantReplies}

Draft(goal, targetAudience, tone, additionalContext) ==
    JObj(<<[k |-> "goal", v |-> JStr(goal)],
           [k |-> "targetAudience", v |-> JStr(targetAudience)],
           [k |-> "tone", v |-> JStr(tone)],
           [k |-> "additionalContext", v |-> JStr(additionalContext)]>>)

\* Values of the argument currentDraft (a Partial<CampaignDraft>).
PartialDrafts ==
    {JObj(<<>>),
     JObj(<<[k |-> "goal", v |-> JStr("Reengage nurses")]>>),
     Draft("Reengage nurses", "ICU nurses", "", ""),
     Draft("Reengage nurses", "ICU nurses", "Formal", ""),
     Draft("Reengage nurses", "ICU nurses", "Formal", "Mention benefits")}

RecentSearches == {<<>>, <<"RN in Boston", "ICU", "NICU", "ER nurse", "CRNA">>}

CampaignReplies ==
    {"{\"emailSteps\":[{\"type\":\"sms\",\"delay\":-1},{\"delay\":0}],\"campaignData\":{\"type\":\"x\"}}",
     "{\"emailSteps\":[{},{\"delay\":-3,\"delayUnit\":\"weeks\"}]}",
     "{\"emailSteps\":\"none\"}",
     "{\"campaignData\":{}}",
     "[]",
     "null"}

CampaignTexts ==
    EditsOfAll({t \in CampaignReplies : Len(t) > 20})
        \cup CampaignReplies \cup {Fenced(t) : t \in CampaignReplies}

\* Values of the argument draft (a CampaignDraft): matchedExampleId and
\* additionalContext are optional.
CampaignDrafts ==
    {JObj(<<[k |-> "goal", v |-> JStr("Reengage nurses")],
            [k |-> "matchedExampleId", v |-> JStr("talent-community")],
            [k |-> "targetAudience", v |-> JStr("ICU nurses")],
            [k |-> "tone", v |-> JStr("Formal")],
            [k |-> "companyName", v |-> JStr("Mercy")],
            [k |-> "recruiterName", v |-> JStr("Ann")]>>),
     JObj(<<[k |-> "goal", v |-> JStr("Build a talent community of experienced critical care nurses")],
            [k |-> "targetAudience", v |-> JStr("ICU nurses")],
            [k |-> "tone", v |-> JStr("Formal")],
            [k |-> "additionalContext", v |-> JStr("Mention benefits")],
            [k |-> "companyName", v |-> JStr("Mercy")],
            [k |-> "recruiterName", v |-> JStr("Ann")]>>),
     JObj(<<[k |-> "goal", v |-> JStr("")],
            [k |-> "matchedExampleId", v |-> JStr("")],
            [k |-> "targetAudience", v |-> JStr("")],
            [k |-> "tone", v |-> JStr("")],
            [k |-> "companyName", v |-> JStr("")],
            [k |-> "recruiterName", v |-> JStr("")]>>)}

\* Entries of the table data/campaignExamples.
Example(id, campaignType, collateralToUse, examples) ==
    [id |-> id, campaignType |-> campaignType, collateralToUse |-> collateralToUse,
     sequenceAndExamples |-> [steps |-> Len(examples), examples |-> examples]]

campaignExamples ==
    {Example("talent-community", "nurture", <<"newsletters", "benefits">>,
             <<"Welcome to the community", "Industry insights", "Open roles">>),
     Example("reengagement", "reengage", <<>>, <<"We miss you">>),
     Example("announcement", "event", <<"flyer">>, <<>>)}

\* What findCampaignExampleById and findCampaignExampleByGoal may return: an
\* entry of the table, or null.
IdLookupResults ==
    {NoExample} \cup {e \in campaignExamples : e.id = "talent-community"}
GoalLookupResults ==
    {NoExample} \cup {e \in campaignExamples : e.id # "talent-community"}

\* Drafts in which each of the four collected fields is absent, empty or
\* set.
DraftFields == <<"goal", "targetAudience", "tone", "additionalContext">>

RECURSIVE DraftMembers(_, _)
DraftMembers(choice, i) ==
    IF i > Len(DraftFields) THEN <<>>
    ELSE (CASE choice[i] = "absent" -> <<>>
            [] choice[i] = "empty" -> <<[k |-> DraftFields[i], v |-> JStr("")]>>
            [] OTHER -> <<[k |-> DraftFields[i], v |-> JStr("Formal")]>>)
         \o DraftMembers(choice, i + 1)

StageDrafts ==
    {JObj(DraftMembers(choice, 1)) :
        choice \in [1..Len(DraftFields) -> {"absent", "empty", "set"}]}

\* The longest text of SanitizeInputs.
MaxSanitizeLen == 3

\* Arguments of sanitizeJsonString, strings and others.
SanitizeInputs ==
    {JStr(t) : t \in TextsUpTo({"a", "\"", "\\", "\n", BS, " "}, MaxSanitizeLen)}
        \cup {Undefined, JNum(7)}

JobReplySet == Replies(JobTexts \cup WrappedJobTexts)
SequenceReplySet == Replies(SequenceTexts)
AssistantReplySet == Replies(AssistantTexts)
CampaignReplySet == Replies(CampaignTexts)

(***************************************************************************)
(* The state machine: one call at a time, from its start to its result.    *)
(***************************************************************************)
VARIABLES
    pc,       \* "idle", "waiting" (for the reply of the LLM endpoint), "done"
    fn,       \* the function called
    arg,      \* its arguments
    local,    \* what the call holds across its await
    sent,     \* the requests the call has sent to the LLM endpoint
    reply,    \* the reply the call resumed with
    result    \* its outcome

vars == <<pc, fn, arg, local, sent, reply, result>>

Returned(val) == [kind |-> "returned", val |-> val]
NoReply == [kind |-> "none", content |-> Undefined]
NoLocal == [matchingExample |-> NoExample, lookups |-> <<>>]

Init ==
    /\ pc = "idle"
    /\ fn = ""
    /\ arg = <<>>
    /\ local = NoLocal
    /\ sent = 0
    /\ reply = NoReply
    /\ result = Pending

\* A synchronous call runs to its return.
Run(name, a, outcome) ==
    /\ pc' = "done"
    /\ fn' = name
    /\ arg' = a
    /\ result' = outcome
    /\ UNCHANGED <<sent, reply>>

\* An asynchronous call runs to its await of openai.chat.completions.create.
Start(name, a) ==
    /\ pc' = "waiting"
    /\ fn' = name
    /\ arg' = a
    /\ sent' = sent + 1
    /\ UNCHANGED <<reply, result>>

\* It resumes with the reply r and runs to its outcome.
Resume(r, outcome) ==
    /\ pc' = "done"
    /\ reply' = r
    /\ result' = outcome
    /\ UNCHANGED <<fn, arg, local, sent>>

CallCleanJsonResponse ==
    /\ pc = "idle"
    /\ \E response \in CleanInputs :
          Run("cleanJsonResponse", [response |-> response],
              Returned(CleanJsonResponse(response)))
    /\ UNCHANGED local

CallParseJsonSafely ==
    /\ pc = "idle"
    /\ \E jsonString \in JobTexts :
          Run("parseJsonSafely", [jsonString |-> jsonString],
              Returned(ParseJsonSafely(jsonString).val))
    /\ UNCHANGED local

CallSanitizeJsonString ==
    /\ pc = "idle"
    /\ \E str \in SanitizeInputs :
          Run("sanitizeJsonString", [str |-> str], Returned(SanitizeJsonString(str)))
    /\ UNCHANGED local

CallValidateJsonStructure ==
    /\ pc = "idle"
    /\ \E data \in ParsedValues :
          Run("validateJsonStructure", [data |-> data],
              IF ValidateJsonStructure(data).threw
              THEN [kind |-> "threw", val |-> "TypeError"]
              ELSE Returned(ValidateJsonStructure(data).val))
    /\ UNCHANGED local

ExtractJobFromUrlStart ==
    /\ pc = "idle"
    /\ \E jobUrl \in JobUrls : Start("extractJobFromUrl", [jobUrl |-> jobUrl])
    /\ UNCHANGED local

ExtractJobFromUrlResume ==
    /\ pc = "waiting"
    /\ fn = "extractJobFromUrl"
    /\ \E r \in JobReplySet : Resume(r, ExtractJobFromUrl(arg.jobUrl, r))

GenerateCampaignSequenceStart ==
    /\ pc = "idle"
    /\ \E prompt \in Prompts : Start("generateCampaignSequence", [prompt |-> prompt])
    /\ UNCHANGED local

GenerateCampaignSequenceResume ==
    /\ pc = "waiting"
    /\ fn = "generateCampaignSequence"
    /\ \E r \in SequenceReplySet : Resume(r, GenerateCampaignSequence(arg.prompt, r))

ProcessUserInputStart ==
    /\ pc = "idle"
    /\ \E currentDraft \in PartialDrafts, recentSearches \in RecentSearches :
          Start("processUserInput",
                [currentDraft |-> currentDraft, recentSearches |-> recentSearches])
    /\ UNCHANGED local

ProcessUserInputResume ==
    /\ pc = "waiting"
    /\ fn = "processUserInput"
    /\ \E r \in AssistantReplySet :
          Resume(r, ProcessUserInput(arg.currentDraft, arg.recentSearches, r))

\* generateCampaignFromDraft(draft) up to its await, or to its throw when no
\* example is found; byId and byGoal are what the two lookups return when
\* they are made.
GenerateCampaignFromDraftStart ==
    /\ pc = "idle"
    /\ \E draft \in CampaignDrafts, byId \in IdLookupResults, byGoal \in GoalLookupResults :
          LET a == [draft |-> draft, byId |-> byId, byGoal |-> byGoal]
          IN  /\ local' = [matchingExample |-> MatchingExample(draft, byId, byGoal),
                           lookups |-> ExampleLookups(draft, byId)]
              /\ IF MatchingExample(draft, byId, byGoal) = NoExample
                 THEN Run("generateCampaignFromDraft", a, Rejected(NoGuidelineMessage))
                 ELSE Start("generateCampaignFromDraft", a)

GenerateCampaignFromDraftResume ==
    /\ pc = "waiting"
    /\ fn = "generateCampaignFromDraft"
    /\ \E r \in CampaignReplySet :
          Resume(r, GenerateCampaignFromDraft(arg.draft, local.matchingExample, r))

CallDetermineNextStep ==
    /\ pc = "idle"
    /\ \E draft \in StageDrafts :
          Run("determineNextStep", [draft |-> draft],
              Returned(JStr(DetermineNextStep(draft))))
    /\ UNCHANGED local

CallGetConversationStage ==
    /\ pc = "idle"
    /\ \E draft \in StageDrafts :
          Run("getConversationStage", [draft |-> draft],
              Returned(JStr(GetConversationStage(draft))))
    /\ UNCHANGED local

\* The caller takes the outcome; the next call starts afresh.
Return ==
    /\ pc = "done"
    /\ pc' = "idle"
    /\ fn' = ""
    /\ arg' = <<>>
    /\ local' = NoLocal
    /\ sent' = 0
    /\ reply' = NoReply
    /\ result' = Pending

Next ==
    \/ CallCleanJsonResponse
    \/ CallParseJsonSafely
    \/ CallSanitizeJsonString
    \/ CallValidateJsonStructure
    \/ ExtractJobFromUrlStart
    \/ ExtractJobFromUrlResume
    \/ GenerateCampaignSequenceStart
    \/ GenerateCampaignSequenceResume
    \/ ProcessUserInputStart
    \/ ProcessUserInputResume
    \/ GenerateCampaignFromDraftStart
    \/ GenerateCampaignFromDraftResume
    \/ CallDetermineNextStep
    \/ CallGetConversationStage
    \/ Return

Spec == Init /\ [][Next]_vars

\* The calls of one module at a time.  A call starts from the idle state and
\* Return restores it, so each of these reaches the states of Spec in which
\* its functions run.
NextAiUtils ==
    \/ CallCleanJsonResponse
    \/ CallParseJsonSafely
    \/ CallSanitizeJsonString
    \/ CallValidateJsonStructure
    \/ Return

SpecAiUtils == Init /\ [][NextAiUtils]_vars

NextJobExtraction ==
    \/ ExtractJobFromUrlStart
    \/ ExtractJobFromUrlResume
    \/ Return

SpecJobExtraction == Init /\ [][NextJobExtraction]_vars

NextCampaignSequence ==
    \/ GenerateCampaignSequenceStart
    \/ GenerateCampaignSequenceResume
    \/ Return

SpecCampaignSequence == Init /\ [][NextCampaignSequence]_vars

NextAssistant ==
    \/ ProcessUserInputStart
    \/ ProcessUserInputResume
    \/ Return

SpecAssistant == Init /\ [][NextAssistant]_vars

NextCampaignFromDraft ==
    \/ GenerateCampaignFromDraftStart
    \/ GenerateCampaignFromDraftResume
    \/ Return

SpecCampaignFromDraft == Init /\ [][NextCampaignFromDraft]_vars

NextStage ==
    \/ CallDetermineNextStep
    \/ CallGetConversationStage
    \/ Return

SpecStage == Init /\ [][NextStage]_vars

(***************************************************************************)
(* Properties.                                                             *)
(***************************************************************************)
Done(name) == pc = "done" /\ fn = name

\* The fields of a list of email steps, step by step.
Ids(steps) == [i \in 1..Len(steps) |-> steps[i].id]
Delays(steps) == [i \in 1..Len(steps) |-> steps[i].delay]
DelayUnits(steps) == [i \in 1..Len(steps) |-> steps[i].delayUnit]

\* The request failed, or its content is missing or empty, is not valid
\* JSON, or is JSON that is not an array.
SequenceCallFailed ==
    \/ reply.kind = "error"
    \/ ~Truthy(reply.content)
    \/ ~JSONParse(reply.content.v).ok
    \/ ~IsArray(JSONParse(reply.content.v).val)

\* C1: generateCampaignSequence never rejects, and whenever the request
\* failed, the content was missing or empty, was not valid JSON or was JSON
\* that is not an array, it resolves with the three-step fallback sequence:
\* ids step-1, step-2, step-3, delays 0, 3, 5, delayUnits 'immediately',
\* 'business days', 'business days'.
C1_SequenceFallback ==
    Done("generateCampaignSequence") =>
        /\ result.kind = "resolved"
        /\ SequenceCallFailed =>
              /\ Ids(result.val) = <<JStr("step-1"), JStr("step-2"), JStr("step-3")>>
              /\ Delays(result.val) = <<JNum(0), JNum(3), JNum(5)>>
              /\ DelayUnits(result.val)
                    = <<JStr("immediately"), JStr("business days"), JStr("business days")>>

\* The call has resolved on a reply that is valid JSON but not an array.
C1_ResolvedOnNonArray ==
    /\ Done("generateCampaignSequence")
    /\ reply.kind = "completion"
    /\ Truthy(reply.content)
    /\ JSONParse(reply.content.v).ok
    /\ ~IsArray(JSONParse(reply.content.v).val)
    /\ result.kind = "resolved"
    /\ Len(result.val) = 3

\* C2: for a string that is valid JSON, parseJsonSafely returns exactly the
\* value JSON.parse gives for it; the repair pass and the reconstruction do
\* not touch it.
C2_ValidJsonParsedDirectly ==
    (Done("parseJsonSafely") /\ JSONParse(arg.jsonString).ok) =>
        result = Returned(JSONParse(arg.jsonString).val)

\* parseJsonSafely has returned the direct parse of a valid text which the
\* repair pass would have changed into a text with another value.
C2_ValidJsonRepairWouldChange ==
    /\ Done("parseJsonSafely")
    /\ JSONParse(arg.jsonString).ok
    /\ JSONParse(FixedJson(arg.jsonString)).ok
    /\ JSONParse(FixedJson(arg.jsonString)).val # JSONParse(arg.jsonString).val
    /\ result = Returned(JSONParse(arg.jsonString).val)

ReconstructedKeys ==
    <<"score", "reasons", "category", "title", "description", "requirements",
      "location", "name", "industry", "size", "values", "benefits", "cultureKeywords">>

ListFields == {"reasons", "requirements", "values", "benefits", "cultureKeywords"}

DefaultOf(field) ==
    CASE field = "score" -> JNum(0)
      [] field = "category" -> JStr("potential")
      [] field \in ListFields -> JArr(<<>>)
      [] OTHER -> JStr("")

Quoted(text) == "\"" \o text \o "\""

\* value is the default of field, or was taken from the text: a string that
\* stands in quotes in the text, for a list field a non-empty list of such
\* strings; the default it is when the text does not name the field.
ExtractedOrDefault(text, field, value) ==
    /\ \/ value = DefaultOf(field)
       \/ /\ field \notin ListFields
          /\ IsString(value)
          /\ Includes(text, Quoted(value.v))
       \/ /\ field \in ListFields
          /\ IsArray(value)
          /\ value.v # <<>>
          /\ \A i \in 1..Len(value.v) :
                IsString(value.v[i]) /\ Includes(text, Quoted(value.v[i].v))
    /\ ~Includes(ToLowerCase(text), Quoted(ToLowerCase(field)) \o ":")
          => value = DefaultOf(field)

\* C3: for a string, parseJsonSafely returns without throwing; when the
\* direct parse and the repaired parse both fail, it returns an object with
\* exactly the thirteen keys score, reasons, category, title, description,
\* requirements, location, name, industry, size, values, benefits,
\* cultureKeywords, each the extracted value or its default (0 for score,
\* 'potential' for category, '' for the other text fields, [] for the list
\* fields).
C3_ReconstructionNeverThrows ==
    Done("parseJsonSafely") =>
        /\ result.kind = "returned"
        /\ (~JSONParse(arg.jsonString).ok /\ ~JSONParse(FixedJson(arg.jsonString)).ok) =>
              /\ result.val.t = "object"
              /\ [i \in 1..Len(result.val.v) |-> result.val.v[i].k] = ReconstructedKeys
              /\ \A i \in 1..Len(result.val.v) :
                    ExtractedOrDefault(arg.jsonString, result.val.v[i].k, result.val.v[i].v)

\* parseJsonSafely has reconstructed an object from a text neither parse
\* accepts: a title and requirements were extracted, the category is the
\* default.
C3_ReconstructedFromBrokenText ==
    /\ Done("parseJsonSafely")
    /\ ~JSONParse(arg.jsonString).ok
    /\ ~JSONParse(FixedJson(arg.jsonString)).ok
    /\ result.kind = "returned"
    /\ Get(result.val, "title") = JStr("RN")
    /\ Get(result.val, "requirements") # JArr(<<>>)
    /\ Get(result.val, "category") = JStr("potential")
    /\ Get(result.val, "score") = JNum(0)

\* C4: for a string in which some "{" stands at or before some "}", the
\* exported cleanJsonResponse returns exactly the text from the first "{"
\* to the last "}"; an input that is not a string, or is the empty string,
\* is returned unchanged.
C4_CleanKeepsBraces ==
    Done("cleanJsonResponse") =>
        LET response == arg.response
        IN  IF IsString(response) /\ response.v # ""
            THEN (\E i, j \in 1..Len(response.v) :
                     i <= j /\ Ch(response.v, i) = "{" /\ Ch(response.v, j) = "}")
                 => result = Returned(JStr(Slice(response.v, IndexOf(response.v, "{"),
                                                 LastIndexOf(response.v, "}"))))
            ELSE result = Returned(response)

\* cleanJsonResponse has returned the object of a reply that came in a code
\* fence with a sentence after it: text was removed on both sides, and the
\* object holds a "}" before its last one.
C4_FenceAndProseRemoved ==
    /\ Done("cleanJsonResponse")
    /\ IsString(arg.response)
    /\ OccursAt(arg.response.v, Fence, 1)
    /\ result.kind = "returned"
    /\ IsString(result.val)
    /\ Ch(result.val.v, 1) = "{"
    /\ Ch(result.val.v, Len(result.val.v)) = "}"
    /\ IndexOf(result.val.v, "}") < Len(result.val.v)
    /\ LastIndexOf(arg.response.v, "}") < Len(arg.response.v)
    /\ Len(result.val.v) < Len(arg.response.v)

\* C5: every job record extractJobFromUrl resolves with has apply_url equal
\* to the jobUrl argument, whatever apply_url the reply held and on the
\* fallback path alike.
C5_ApplyUrlIsJobUrl ==
    (Done("extractJobFromUrl") /\ result.kind = "resolved") =>
        result.val.apply_url = JStr(arg.jobUrl)

\* extractJobFromUrl has resolved with the record of a reply whose apply_url
\* is another string than jobUrl.
C5_ReplyNamedAnotherUrl ==
    /\ Done("extractJobFromUrl")
    /\ reply.kind = "completion"
    /\ IsString(reply.content)
    /\ JSONParse(reply.content.v).ok
    /\ IsString(Get(JSONParse(reply.content.v).val, "apply_url"))
    /\ Get(JSONParse(reply.content.v).val, "apply_url") # JStr(arg.jobUrl)
    /\ result.kind = "resolved"
    /\ result.val.title = Get(JSONParse(reply.content.v).val, "title")

StringOr(value, default) == IF value.t = "string" THEN value ELSE JStr(default)

\* The elements of list that are strings, in order.
RECURSIVE StringsOf(_)
StringsOf(list) ==
    IF list = <<>> THEN <<>>
    ELSE IF Head(list).t = "string" THEN <<Head(list)>> \o StringsOf(Tail(list))
    ELSE StringsOf(Tail(list))

\* C6: validateJsonStructure applied to a parsed object returns a record in
\* which title, description, location and apply_url are strings (the input
\* value when it is a string, else 'Healthcare Professional', 'Join our
\* healthcare team.', 'Multiple locations', ''), employment_type is one of
\* 'full-time', 'part-time', 'contract', 'temporary' (the input value when
\* it is one of them, else 'full-time'), and requirements is a list of
\* strings only: the string elements of the input list in order, or
\* ['Professional certification required'] when the input is not a list.
C6_ValidatedFields ==
    (Done("validateJsonStructure") /\ arg.data.t \in {"object", "array"}) =>
        LET data == arg.data
            record == result.val
        IN  /\ result.kind = "returned"
            /\ record.title = StringOr(Get(data, "title"), "Healthcare Professional")
            /\ record.description = StringOr(Get(data, "description"), "Join our healthcare team.")
            /\ record.location = StringOr(Get(data, "location"), "Multiple locations")
            /\ record.apply_url = StringOr(Get(data, "apply_url"), "")
            /\ record.employment_type
                  \in {JStr("full-time"), JStr("part-time"), JStr("contract"), JStr("temporary")}
            /\ record.employment_type
                  = (IF Get(data, "employment_type")
                          \in {JStr("full-time"), JStr("part-time"), JStr("contract"),
                               JStr("temporary")}
                     THEN Get(data, "employment_type") ELSE JStr("full-time"))
            /\ record.requirements.t = "array"
            /\ \A i \in 1..Len(record.requirements.v) : record.requirements.v[i].t = "string"
            /\ record.requirements.v
                  = (IF Get(data, "requirements").t = "array"
                     THEN StringsOf(Get(data, "requirements").v)
                     ELSE <<JStr("Professional certification required")>>)

\* validateJsonStructure has returned the record of an object whose
\* requirements hold an element that is not a string, which it dropped.
C6_DroppedNonString ==
    /\ Done("validateJsonStructure")
    /\ arg.data.t = "object"
    /\ Get(arg.data, "requirements").t = "array"
    /\ \E i \in 1..Len(Get(arg.data, "requirements").v) :
          Get(arg.data, "requirements").v[i].t # "string"
    /\ result.kind = "returned"
    /\ result.val.requirements.v # <<>>
    /\ Len(result.val.requirements.v) < Len(Get(arg.data, "requirements").v)

\* C7: when the reply's text is parsed as JSON by neither the direct parse
\* nor the repaired parse of parseJsonSafely, extractJobFromUrl resolves
\* with createFallbackJobData(jobUrl), not with a record built from the
\* text.
C7_UnparseableGivesFallback ==
    (/\ Done("extractJobFromUrl")
     /\ reply.kind = "completion"
     /\ IsString(reply.content) /\ reply.content.v # ""
     /\ ~JSONParse(CleanJsonResponse(reply.content).v).ok
     /\ ~JSONParse(FixedJson(CleanJsonResponse(reply.content).v)).ok)
    => result = Resolved(CreateFallbackJobData(arg.jobUrl))

\* The request failed, no content came, or the content is not valid JSON
\* once its code fences are stripped.
AssistantCallFailed ==
    \/ reply.kind = "error"
    \/ ~Truthy(reply.content)
    \/ ~JSONParse(StripCodeFences(reply.content.v)).ok

\* C8: processUserInput never rejects, and when the request fails, returns
\* no content, or returns text that is not valid JSON after fence stripping,
\* it resolves with the fallback response: campaignDraft is the currentDraft
\* argument, isComplete is false, nextStep is determineNextStep(currentDraft).
C8_AssistantFallback ==
    Done("processUserInput") =>
        /\ result.kind = "resolved"
        /\ AssistantCallFailed =>
              /\ result.val.campaignDraft = arg.currentDraft
              /\ result.val.isComplete = JBool(FALSE)
              /\ result.val.nextStep = JStr(DetermineNextStep(arg.currentDraft))

\* processUserInput has resolved on a reply whose text is not valid JSON,
\* for a draft that already holds goal and audience.
C8_FallbackAsksTone ==
    /\ Done("processUserInput")
    /\ reply.kind = "completion"
    /\ Truthy(reply.content)
    /\ ~JSONParse(StripCodeFences(reply.content.v)).ok
    /\ DetermineNextStep(arg.currentDraft) = "tone"
    /\ result.kind = "resolved"
    /\ result.val.nextStep = JStr("tone")

\* C9: generateCampaignFromDraft looks the example up by
\* draft.matchedExampleId first and by draft.goal only when that found
\* nothing; when neither lookup finds one it rejects with 'No matching
\* campaign example found. Cannot proceed without a guideline.' and has sent
\* no request.
C9_LookupOrder ==
    (fn = "generateCampaignFromDraft") =>
        LET foundById == /\ "findCampaignExampleById" \in {local.lookups[i] : i \in 1..Len(local.lookups)}
                         /\ arg.byId # NoExample
        IN  /\ local.lookups \in {<<"findCampaignExampleById">>,
                                  <<"findCampaignExampleByGoal">>,
                                  <<"findCampaignExampleById", "findCampaignExampleByGoal">>}
            /\ Truthy(Get(arg.draft, "matchedExampleId"))
                  => Head(local.lookups) = "findCampaignExampleById"
            /\ foundById
                  => local.lookups = <<"findCampaignExampleById">>
                     /\ local.matchingExample = arg.byId
            /\ ~foundById
                  => local.lookups[Len(local.lookups)] = "findCampaignExampleByGoal"
                     /\ local.matchingExample = arg.byGoal
            /\ local.matchingExample = NoExample
                  => /\ pc = "done"
                     /\ result = Rejected("No matching campaign example found. Cannot proceed without a guideline.")
                     /\ sent = 0
            /\ local.matchingExample # NoExample => sent = 1

\* generateCampaignFromDraft has rejected after both lookups, by id and then
\* by goal, found nothing.
C9_RejectedAfterBothLookups ==
    /\ Done("generateCampaignFromDraft")
    /\ local.lookups = <<"findCampaignExampleById", "findCampaignExampleByGoal">>
    /\ result.kind = "rejected"
    /\ sent = 0

\* The request failed, no content came, the content is not valid JSON once
\* its code fences are stripped, or it holds no emailSteps list.
CampaignCallFailed ==
    \/ reply.kind = "error"
    \/ ~Truthy(reply.content)
    \/ ~JSONParse(StripCodeFences(reply.content.v)).ok
    \/ ~IsArray(Get(JSONParse(StripCodeFences(reply.content.v)).val, "emailSteps"))

\* C10: once an example is found, generateCampaignFromDraft never rejects,
\* and on a request error, empty content, unparseable content or a reply
\* without an emailSteps list it resolves with the fallback campaign: one
\* email step per entry of example.sequenceAndExamples.examples, in the same
\* order, step i (0-based) with delay 2*i, and campaignData.type the
\* example's campaignType.
C10_CampaignFallback ==
    (Done("generateCampaignFromDraft") /\ local.matchingExample # NoExample) =>
        /\ result.kind = "resolved"
        /\ CampaignCallFailed =>
              LET examples == local.matchingExample.sequenceAndExamples.examples
                  steps == result.val.emailSteps
              IN  /\ Len(steps) = Len(examples)
                  /\ \A i \in 1..Len(steps) :
                        /\ steps[i].delay = JNum(2 * (i - 1))
                        /\ steps[i].id = JStr("step-" \o NatToStr(i))
                        /\ Includes(steps[i].content.v, examples[i])
                  /\ Get(result.val.campaignData, "type")
                        = JStr(local.matchingExample.campaignType)

\* generateCampaignFromDraft has resolved on a reply that is valid JSON
\* without an emailSteps list, for an example of three entries.
C10_FallbackOfThreeSteps ==
    /\ Done("generateCampaignFromDraft")
    /\ reply.kind = "completion"
    /\ Truthy(reply.content)
    /\ JSONParse(StripCodeFences(reply.content.v)).ok
    /\ ~IsArray(Get(JSONParse(StripCodeFences(reply.content.v)).val, "emailSteps"))
    /\ Len(local.matchingExample.sequenceAndExamples.examples) = 3
    /\ result.kind = "resolved"
    /\ Len(result.val.emailSteps) = 3
    /\ result.val.emailSteps[3].delay = JNum(4)

\* step-1, ..., step-n
StepIds(n) == [i \in 1..n |-> JStr("step-" \o NatToStr(i))]

\* C11: in every result of generateCampaignFromDraft, from the reply or from
\* the fallback, the email steps have the ids step-1, ..., step-n in list
\* order, and the first step, when there is one, has delay 0 and delayUnit
\* 'immediately' whatever the reply gave for it.
C11_StepIdsAndFirstStep ==
    (Done("generateCampaignFromDraft") /\ result.kind = "resolved") =>
        LET steps == result.val.emailSteps
        IN  /\ Ids(steps) = StepIds(Len(steps))
            /\ Len(steps) > 0 =>
                  /\ steps[1].delay = JNum(0)
                  /\ steps[1].delayUnit = JStr("immediately")

\* generateCampaignFromDraft has resolved with the steps of a reply whose
\* first step asked for another delay than 0.
C11_FirstDelayOverridden ==
    /\ Done("generateCampaignFromDraft")
    /\ reply.kind = "completion"
    /\ Truthy(reply.content)
    /\ JSONParse(StripCodeFences(reply.content.v)).ok
    /\ LET emailSteps == Get(JSONParse(StripCodeFences(reply.content.v)).val, "emailSteps")
       IN  /\ IsArray(emailSteps)
           /\ Len(emailSteps.v) = 2
           /\ Truthy(Get(emailSteps.v[1], "delay"))
           /\ Get(emailSteps.v[1], "delay") # JNum(0)
    /\ result.kind = "resolved"
    /\ Len(result.val.emailSteps) = 2
    /\ result.val.emailSteps[1].delay = JNum(0)

\* C12: every step of every sequence generateCampaignSequence returns has
\* type 'email' or 'connection', delayUnit 'immediately' or 'business
\* days', and a delay that is an integer not below 0, whatever array the
\* reply holds; the ids are step-1, ..., step-n in order and the first
\* step's delayUnit is 'immediately'.
C12_SequenceStepsValid ==
    (Done("generateCampaignSequence") /\ result.kind = "resolved") =>
        LET steps == result.val
        IN  /\ \A i \in 1..Len(steps) :
                  /\ steps[i].type \in {JStr("email"), JStr("connection")}
                  /\ steps[i].delayUnit \in {JStr("immediately"), JStr("business days")}
                  /\ steps[i].delay.t = "number"
                  /\ steps[i].delay.v \in Nat
            /\ Ids(steps) = StepIds(Len(steps))
            /\ Len(steps) > 0 => steps[1].delayUnit = JStr("immediately")

\* generateCampaignSequence has resolved with the steps of an array in which
\* one element has a negative delay and a delayUnit outside the two, and
\* another gives its delay as a string.
C12_ResolvedOnOddFields ==
    /\ Done("generateCampaignSequence")
    /\ reply.kind = "completion"
    /\ Truthy(reply.content)
    /\ JSONParse(reply.content.v).ok
    /\ IsArray(JSONParse(reply.content.v).val)
    /\ LET emailData == JSONParse(reply.content.v).val.v
       IN  /\ Len(result.val) = Len(emailData)
           /\ \E i \in 1..Len(emailData) :
                 /\ Get(emailData[i], "delay").t = "number"
                 /\ Get(emailData[i], "delay").v < 0
                 /\ Get(emailData[i], "delayUnit") = JStr("x")
                 /\ result.val[i].delay = JNum(0)
                 /\ result.val[i].delayUnit = JStr("business days")
           /\ \E i \in 1..Len(emailData) :
                 /\ Get(emailData[i], "type") = JStr("connection")
                 /\ Get(emailData[i], "delay").t = "string"
                 /\ result.val[i].type = JStr("connection")

\* C13: every step generateCampaignFromDraft returns conforms to EmailStep:
\* its type is 'email' or 'connection', its delayUnit 'immediately' or
\* 'business days', its delay a number not below 0, whatever emailSteps
\* list the reply holds.
C13_DraftStepsConform ==
    (Done("generateCampaignFromDraft") /\ result.kind = "resolved") =>
        \A i \in 1..Len(result.val.emailSteps) :
            LET step == result.val.emailSteps[i]
            IN  /\ step.type \in {JStr("email"), JStr("connection")}
                /\ step.delayUnit \in {JStr("immediately"), JStr("business days")}
                /\ step.delay.t = "number"
                /\ step.delay.v >= 0

\* C14: in every sequence generateCampaignSequence returns, a step whose
\* delayUnit is 'immediately' has delay 0; in particular the first step has
\* delay 0.
C14_ImmediatelyMeansNoDelay ==
    (Done("generateCampaignSequence") /\ result.kind = "resolved") =>
        LET steps == result.val
        IN  /\ \A i \in 1..Len(steps) :
                  steps[i].delayUnit = JStr("immediately") => steps[i].delay = JNum(0)
            /\ Len(steps) > 0 => steps[1].delay = JNum(0)

\* The fields a draft collects, in the order they are asked for, with the
\* step and the stage that ask for each; the last of each is for a draft
\* that holds all four.
FieldOrder == <<"goal", "targetAudience", "tone", "additionalContext">>
StepNames == <<"goal", "audience", "tone", "context", "review">>
StageNames ==
    <<"starting the campaign creation process", "defining their target audience",
      "selecting the campaign tone", "providing additional context",
      "reviewing their campaign details">>

\* The position of the first field of FieldOrder that draft lacks (absent
\* or empty), one past the last when it lacks none.
FirstMissing(draft) ==
    LET missing == {i \in 1..Len(FieldOrder) : ~Truthy(Get(draft, FieldOrder[i]))}
    IN  IF missing = {} THEN Len(FieldOrder) + 1
        ELSE CHOOSE i \in missing : \A j \in missing : i <= j

\* C15: determineNextStep returns the first missing field of the draft in
\* the order goal, targetAudience ('audience'), tone, additionalContext
\* ('context'), 'review' when all four are present, and never 'generate';
\* getConversationStage selects its stage by the same order, so the two
\* name the same stage for the same draft.
C15_FirstMissingField ==
    /\ Done("determineNextStep") =>
          /\ result = Returned(JStr(StepNames[FirstMissing(arg.draft)]))
          /\ result.val # JStr("generate")
    /\ Done("getConversationStage") =>
          result = Returned(JStr(StageNames[FirstMissing(arg.draft)]))

\* determineNextStep has returned 'audience' for a draft that holds a goal,
\* an empty targetAudience and no tone.
C15_AudienceAskedBeforeTone ==
    /\ Done("determineNextStep")
    /\ Truthy(Get(arg.draft, "goal"))
    /\ HasKey(arg.draft.v, "targetAudience")
    /\ ~Truthy(Get(arg.draft, "targetAudience"))
    /\ ~HasKey(arg.draft.v, "tone")
    /\ result = Returned(JStr("audience"))

\* processUserInput has taken its success path: the reply holds content
\* that parses, once its fences are stripped, to a value other than null.
AssistantCallSucceeded ==
    /\ Done("processUserInput")
    /\ reply.kind = "completion"
    /\ Truthy(reply.content)
    /\ JSONParse(StripCodeFences(reply.content.v)).ok
    /\ ~Nullish(JSONParse(StripCodeFences(reply.content.v)).val)
    /\ result.kind = "resolved"

\* The campaignDraft of the parsed reply.
ResponseDraft == Get(JSONParse(StripCodeFences(reply.content.v)).val, "campaignDraft")

Keys(object) == {object.v[i].k : i \in 1..Len(object.v)}

\* C16: on the success path of processUserInput the returned campaignDraft
\* is currentDraft overlaid with the reply's campaignDraft: every field the
\* reply's campaignDraft holds has the reply's value, and every field of
\* currentDraft that it does not hold keeps its value, so no field of
\* currentDraft is missing from the result.
C16_DraftOverlay ==
    AssistantCallSucceeded =>
        LET merged == result.val.campaignDraft
        IN  /\ merged.t = "object"
            /\ Keys(arg.currentDraft) \subseteq Keys(merged)
            /\ ResponseDraft.t = "object" =>
                  /\ Keys(merged) = Keys(arg.currentDraft) \cup Keys(ResponseDraft)
                  /\ \A k \in Keys(ResponseDraft) : Get(merged, k) = Get(ResponseDraft, k)
            /\ \A k \in Keys(arg.currentDraft) :
                  (ResponseDraft.t # "object" \/ k \notin Keys(ResponseDraft))
                     => Get(merged, k) = Get(arg.currentDraft, k)

\* processUserInput has merged a reply that changes the tone of a draft and
\* leaves its goal alone.
C16_ToneReplacedGoalKept ==
    /\ AssistantCallSucceeded
    /\ ResponseDraft.t = "object"
    /\ Keys(ResponseDraft) = {"tone"}
    /\ Truthy(Get(arg.currentDraft, "tone"))
    /\ Get(arg.currentDraft, "tone") # Get(ResponseDraft, "tone")
    /\ Truthy(Get(arg.currentDraft, "goal"))
    /\ Get(result.val.campaignDraft, "tone") = Get(ResponseDraft, "tone")
    /\ Get(result.val.campaignDraft, "goal") = Get(arg.currentDraft, "goal")

\* C17: when the reply to processUserInput holds no nextStep, the returned
\* nextStep is the first field still missing from the returned campaignDraft:
\* it equals determineNextStep of the campaignDraft that is returned.
C17_NextStepOfMergedDraft ==
    (/\ AssistantCallSucceeded
     /\ Get(JSONParse(StripCodeFences(reply.content.v)).val, "nextStep") = Undefined)
    => result.val.nextStep = JStr(StepNames[FirstMissing(result.val.campaignDraft)])

\* C18: sanitizeJsonString escapes a string for embedding in JSON: for every
\* string s, JSON.parse of a double quote, sanitizeJsonString(s) and a
\* double quote yields s again.
C18_SanitizeRoundTrip ==
    (Done("sanitizeJsonString") /\ IsString(arg.str)) =>
        /\ IsString(result.val)
        /\ JSONParse(Quoted(result.val.v)).ok
        /\ JSONParse(Quoted(result.val.v)).val = arg.str
====
